---- MODULE Spec2Model ----
(***************************************************************************)
(* Model of the finite element modal-analysis driver (src/main_modal.py)   *)
(* and of the constant-strain triangle formulation (src/utlis/element.py). *)
(*                                                                         *)
(* Numbers.  Node coordinates are grid values k * 2^-scale_exp with small  *)
(* integer k, so every coordinate, difference, product and the area are    *)
(* exactly representable in float32 and float64 and are modelled as        *)
(* dyadic numbers [m, shift] = m * 2^-shift.  A quotient is modelled as    *)
(* the reduced fraction it rounds from; the tensor's dtype says how it is  *)
(* rounded, so two tensors are equal iff their dtypes and fractions are.   *)
(* shape_functions is modelled in float32 itself (24-bit significand,      *)
(* round to nearest even) on a fixed-point grid.                           *)
(***************************************************************************)
EXTENDS Integers, Sequences, FiniteSets, TLC

VARIABLES
    \* ---- TriangularElement.compute_B_matrix (one element) ----
    node_coords,      \* the array passed in: a sequence of rows of grid integers
    scale_exp,        \* coordinates are k * 2^-scale_exp
    dtype,            \* dtype of the coordinate tensor
    elem_result,      \* outcome of compute_B_matrix
    \* ---- TriangularElement.compute_B_matrix_vectorized (a batch) ----
    batch,            \* the (K, 3, 2) array: a sequence of elements
    vec_result,       \* outcome of compute_B_matrix_vectorized(batch)
    single_results,   \* outcomes of compute_B_matrix(batch[k]), k = 1..Len
    split_result,     \* outcomes of the vectorized call on the two parts of a split
    \* ---- TriangularElement.shape_functions ----
    natural_coords,   \* <<xi, eta>>, float32 values on the fixed-point grid
    N,                \* outcome of shape_functions
    \* ---- main_modal.main ----
    phase,            \* function of main that is running, or how main ended
    stmt,             \* index of the next statement of that function
    calls,            \* the calls that have completed, in order
    raised_in,        \* the call that raised, or "none"
    cli_flag,         \* --incompatible_mode_element as given on the command line
    args_flag,        \* args.incompatible_mode_element as the program holds it
    num_dimensions,   \* model.parameters['num_dimensions']
    node_stresses,    \* one row of node_stresses (one node's stress components)
    von_mises_stress, \* the von Mises value post_processing computed for it
    vtk               \* results.vtk: whether it is written, and its point data

elemVars  == <<node_coords, elem_result>>
batchVars == <<batch, vec_result, single_results, split_result>>
shapeVars == <<natural_coords, N>>
mainVars  == <<phase, stmt, calls, raised_in, cli_flag, args_flag,
               num_dimensions, node_stresses, von_mises_stress, vtk>>
vars == <<node_coords, scale_exp, dtype, elem_result,
          batch, vec_result, single_results, split_result,
          natural_coords, N,
          phase, stmt, calls, raised_in, cli_flag, args_flag,
          num_dimensions, node_stresses, von_mises_stress, vtk>>

(***************************************************************************)
(* Bounds of the model                                                     *)
(***************************************************************************)
\* grid integers of a single element's coordinates: 0..MaxCoord
MaxCoord == 2
\* grid integers of the coordinates of a batch's elements: 0..BatchMaxCoord
BatchMaxCoord == 1
\* largest batch length K
MaxBatch == 2
\* natural coordinates k * 2^-25 for k = 1..MaxTiny (around half an ulp of 1)
MaxTiny == 3
\* nodal stress components range over -MaxStress..MaxStress
MaxStress == 2

(***************************************************************************)
(* Program constants                                                       *)
(***************************************************************************)
\* the degeneracy tolerance is 1e-10 = 10^-TolDigits
TolDigits == 10
\* significand bits of torch.float (float32)
MantissaBits == 24

\* exponents e of the coordinate grid 2^-e: the unit grid, and two fine grids
\* on which the smallest non-collinear triangle has area 2^-33 > 1e-10 and
\* 2^-35 < 1e-10
ScaleExps == {0, 16, 17}
DTypes == {"float32", "float64"}

(***************************************************************************)
(* Arithmetic                                                              *)
(***************************************************************************)
Abs(x) == IF x < 0 THEN -x ELSE x

RECURSIVE Pow(_, _)
Pow(b, n) == IF n = 0 THEN 1 ELSE b * Pow(b, n - 1)

RECURSIVE GCD(_, _)
GCD(a, b) == IF b = 0 THEN a ELSE GCD(b, a % b)

\* the fraction n/d in lowest terms with a positive denominator; as in float
\* division, n/0 is +-1/0 (infinity) and 0/0 is 0/0 (nan)
Rat(n, d) ==
    LET g == GCD(Abs(n), Abs(d))
        s == IF d < 0 THEN -1 ELSE 1
    IN  IF g = 0 THEN [num |-> 0, den |-> 0]
        ELSE [num |-> (s * n) \div g, den |-> (s * d) \div g]

Zero == Rat(0, 1)
RatNeg(q) == [num |-> -q.num, den |-> q.den]

\* dyadic numbers m * 2^-shift: the values the tensor arithmetic computes exactly
Dy(m, s) == [m |-> m, shift |-> s]
DySub(a, b) == Dy(a.m - b.m, a.shift)
DyAdd(a, b) == Dy(a.m + b.m, a.shift)
DyMul(a, b) == Dy(a.m * b.m, a.shift + b.shift)
DyHalf(a) == Dy(a.m, a.shift + 1)
DyTwice(a) == Dy(2 * a.m, a.shift)
\* a / b, for b # 0 on a grid at least as fine as a's
DyDiv(a, b) == Rat(a.m * Pow(2, b.shift - a.shift), b.m)

\* abs(a) < 1e-10, i.e. |m| * 5^10 < 2^(shift - 10); a nonzero m * 2^-shift with
\* shift < 10 is at least 2^-9
AbsLessTol(a) ==
    IF a.m = 0 THEN TRUE
    ELSE IF a.shift < TolDigits THEN FALSE
    ELSE Abs(a.m) * Pow(5, TolDigits) < Pow(2, a.shift - TolDigits)

(***************************************************************************)
(* TriangularElement.compute_B_matrix                                      *)
(***************************************************************************)
NoResult == [status |-> "none", msg |-> "", dtype |-> "", B |-> <<>>]
Raise(m) == [status |-> "ValueError", msg |-> m, dtype |-> "", B |-> <<>>]

\* node_coords.shape
Shape(nc) == <<Len(nc), IF Len(nc) = 0 THEN 0 ELSE Len(nc[1])>>

\* the shape test of the single-element path
BadShape(nc) == Shape(nc)[1] # 3 \/ Shape(nc)[2] # 2

\* x_i, y_i of row i
X(nc, e, i) == Dy(nc[i][1], e)
Y(nc, e, i) == Dy(nc[i][2], e)

\* A = 0.5 * (x1*(y2 - y3) + x2*(y3 - y1) + x3*(y1 - y2))
TriangleArea(nc, e) ==
    DyHalf(DyAdd(DyAdd(DyMul(X(nc, e, 1), DySub(Y(nc, e, 2), Y(nc, e, 3))),
                       DyMul(X(nc, e, 2), DySub(Y(nc, e, 3), Y(nc, e, 1)))),
                 DyMul(X(nc, e, 3), DySub(Y(nc, e, 1), Y(nc, e, 2)))))

\* a tolerance test that forgets abs(): every clockwise element is rejected
IsDegenerate_noabs(A) == A.m < 0 \/ AbsLessTol(A)
\* if abs(A) < 1e-10
IsDegenerate(A) == AbsLessTol(A)

\* derivatives that divide by 2*abs(A) instead of 2*A
ShapeDerivs_absarea(nc, e, A) ==
    LET A2 == DyTwice(Dy(Abs(A.m), A.shift))
    IN  [b |-> <<DyDiv(DySub(Y(nc, e, 2), Y(nc, e, 3)), A2),
                 DyDiv(DySub(Y(nc, e, 3), Y(nc, e, 1)), A2),
                 DyDiv(DySub(Y(nc, e, 1), Y(nc, e, 2)), A2)>>,
         c |-> <<DyDiv(DySub(X(nc, e, 3), X(nc, e, 2)), A2),
                 DyDiv(DySub(X(nc, e, 1), X(nc, e, 3)), A2),
                 DyDiv(DySub(X(nc, e, 2), X(nc, e, 1)), A2)>>]
\* b1..b3 = (y2-y3, y3-y1, y1-y2) / (2*A), c1..c3 = (x3-x2, x1-x3, x2-x1) / (2*A)
ShapeDerivs(nc, e, A) ==
    LET A2 == DyTwice(A)
    IN  [b |-> <<DyDiv(DySub(Y(nc, e, 2), Y(nc, e, 3)), A2),
                 DyDiv(DySub(Y(nc, e, 3), Y(nc, e, 1)), A2),
                 DyDiv(DySub(Y(nc, e, 1), Y(nc, e, 2)), A2)>>,
         c |-> <<DyDiv(DySub(X(nc, e, 3), X(nc, e, 2)), A2),
                 DyDiv(DySub(X(nc, e, 1), X(nc, e, 3)), A2),
                 DyDiv(DySub(X(nc, e, 2), X(nc, e, 1)), A2)>>]

\* a B matrix whose second row carries the x-derivatives
BRows_wrongrow(d) ==
    <<  <<d.b[1], Zero, d.b[2], Zero, d.b[3], Zero>>,
        <<Zero, d.b[1], Zero, d.b[2], Zero, d.b[3]>>,
        <<d.c[1], d.b[1], d.c[2], d.b[2], d.c[3], d.b[3]>>  >>
\* [[b1, 0, b2, 0, b3, 0], [0, c1, 0, c2, 0, c3], [c1, b1, c2, b2, c3, b3]]
BRows(d) ==
    <<  <<d.b[1], Zero, d.b[2], Zero, d.b[3], Zero>>,
        <<Zero, d.c[1], Zero, d.c[2], Zero, d.c[3]>>,
        <<d.c[1], d.b[1], d.c[2], d.b[2], d.c[3], d.b[3]>>  >>

\* the whole function; the result tensor is built with dtype=torch.float
compute_B_matrix(nc, e, dt) ==
    IF BadShape(nc)
    THEN Raise("node_coords shape should be (3, 2) for a single triangle")
    ELSE LET A == TriangleArea(nc, e)
         IN  IF IsDegenerate(A)
             THEN Raise("degenerate triangle with almost zero area")
             ELSE [status |-> "ok", msg |-> "", dtype |-> "float32",
                   B |-> BRows(ShapeDerivs(nc, e, A))]

(***************************************************************************)
(* Inputs of the single-element path                                       *)
(***************************************************************************)
Arrays(rows, cols, maxc) == [1..rows -> [1..cols -> 0..maxc]]
Triangles(maxc) == Arrays(3, 2, maxc)
\* arrays the shape test rejects: two rows, or rows of one number
Malformed(maxc) == Arrays(2, 2, maxc) \cup Arrays(3, 1, maxc)

\* von_mises_stress before post_processing has computed it
NotComputed == [floor |-> -1, exact |-> FALSE]
\* results.vtk before write_to_vtk_manual has written it
VtkAbsent == [written |-> FALSE, stress |-> <<>>, von_mises_stress |-> NotComputed]

\* results.vtk after write_to_vtk_manual raised.  The function's body is not
\* part of the sources; the specification's policy is that a failed run leaves
\* no partial result
VtkAfterFailedWrite == VtkAbsent

ElemIdle ==
    /\ node_coords = <<>>
    /\ elem_result = NoResult
BatchIdle ==
    /\ batch = <<>>
    /\ vec_result = NoResult
    /\ single_results = <<>>
    /\ split_result = <<>>
ShapeIdle ==
    /\ natural_coords = <<0, 0>>
    /\ N = <<>>
MainIdle ==
    /\ phase = "idle"
    /\ stmt = 0
    /\ calls = <<>>
    /\ raised_in = "none"
    /\ cli_flag = FALSE
    /\ args_flag = FALSE
    /\ num_dimensions = 2
    /\ node_stresses = <<>>
    /\ von_mises_stress = NotComputed
    /\ vtk = VtkAbsent

InitElem ==
    /\ node_coords \in Triangles(MaxCoord) \cup Malformed(MaxCoord)
    /\ scale_exp \in ScaleExps
    /\ dtype \in DTypes
    /\ elem_result = NoResult
    /\ BatchIdle /\ ShapeIdle /\ MainIdle

\* a caller passes node_coords to compute_B_matrix
CallComputeB ==
    /\ elem_result.status = "none"
    /\ elem_result' = compute_B_matrix(node_coords, scale_exp, dtype)
    /\ UNCHANGED <<node_coords, scale_exp, dtype>>
    /\ UNCHANGED <<batchVars, shapeVars, mainVars>>

NextElem == CallComputeB
SpecElem == InitElem /\ [][NextElem]_vars

(***************************************************************************)
(* Claims about compute_B_matrix (checked under SpecElem)                  *)
(***************************************************************************)
\* twice the signed area in grid units: x1(y2-y3) + x2(y3-y1) + x3(y1-y2)
SignedArea2(nc) ==
    nc[1][1] * (nc[2][2] - nc[3][2]) + nc[2][1] * (nc[3][2] - nc[1][2])
        + nc[3][1] * (nc[1][2] - nc[2][2])
\* |A| < 1e-10 for A = SignedArea2 * 2^-(2e+1)
AreaBelowTol(nc, e) == AbsLessTol(Dy(SignedArea2(nc), 2 * e + 1))
IsTriangle(nc) == Len(nc) = 3 /\ Len(nc[1]) = 2
Called == elem_result.status # "none"
Returned == elem_result.status = "ok"

\* C1: for a (3,2) array compute_B_matrix raises a ValueError and returns no
\* matrix exactly when |A| < 1e-10, and returns a 3x6 matrix otherwise.
C1_DegenerateRaises ==
    (Called /\ IsTriangle(node_coords)) =>
        IF AreaBelowTol(node_coords, scale_exp)
        THEN elem_result.status = "ValueError" /\ elem_result.B = <<>>
        ELSE /\ Returned
             /\ Len(elem_result.B) = 3
             /\ \A r \in 1..3 : Len(elem_result.B[r]) = 6
\* a triangle that is not collinear, yet below the tolerance, was rejected
C1_Witness ==
    /\ Called /\ IsTriangle(node_coords)
    /\ SignedArea2(node_coords) # 0
    /\ elem_result.status = "ValueError"

\* Kronecker delta
Kron(i, j) == IF i = j THEN 1 ELSE 0
\* C4: B holds the physical derivatives of the linear shape functions:
\* rows [b1 0 b2 0 b3 0], [0 c1 0 c2 0 c3], [c1 b1 c2 b2 c3 b3] with
\* b_i (x_j - x_k) + c_i (y_j - y_k) = delta_ij - delta_ik for all i, j, k.
C4_BIsShapeGradient ==
    Returned =>
        LET B == elem_result.B
            b(i) == B[1][2 * i - 1]
            c(i) == B[2][2 * i]
            dx(j, k) == node_coords[j][1] - node_coords[k][1]
            dy(j, k) == node_coords[j][2] - node_coords[k][2]
        IN  /\ \A i \in 1..3 :
                /\ B[1][2 * i] = Zero /\ B[2][2 * i - 1] = Zero
                /\ B[3][2 * i - 1] = c(i) /\ B[3][2 * i] = b(i)
            /\ \A i, j, k \in 1..3 :
                b(i).num * c(i).den * dx(j, k) + c(i).num * b(i).den * dy(j, k)
                    = (Kron(i, j) - Kron(i, k)) * b(i).den * c(i).den
                        * Pow(2, scale_exp)
\* a matrix was returned for a fine-grid triangle with fractional derivatives
C4_Witness ==
    /\ Returned
    /\ scale_exp = 16
    /\ \E i \in 1..3 : elem_result.B[1][2 * i - 1].den > 1

\* C7: no B matrix is ever computed from a negative (clockwise) area.
C7_NoMatrixFromNegativeArea ==
    Returned => SignedArea2(node_coords) > 0

Perms == {p \in [1..3 -> 1..3] : \A i, j \in 1..3 : p[i] = p[j] => i = j}
Reorder(nc, p) == [j \in 1..3 |-> nc[p[j]]]
\* the listings of the same three nodes that are counter-clockwise
CcwListings(nc) == {p \in Perms : SignedArea2(Reorder(nc, p)) > 0}
ClockwiseAccepted ==
    /\ Called /\ IsTriangle(node_coords)
    /\ SignedArea2(node_coords) < 0
    /\ ~AreaBelowTol(node_coords, scale_exp)
\* C9 as stated: for a clockwise listing the shear-row entries have the
\* opposite sign of those of the counter-clockwise listing, node by node.
C9_ShearRowFlipped ==
    ClockwiseAccepted =>
        /\ Returned
        /\ \A p \in CcwListings(node_coords) :
             LET Bccw == compute_B_matrix(Reorder(node_coords, p), scale_exp, dtype).B
             IN  \A j \in 1..3 :
                   /\ elem_result.B[3][2 * p[j] - 1] = RatNeg(Bccw[3][2 * j - 1])
                   /\ elem_result.B[3][2 * p[j]] = RatNeg(Bccw[3][2 * j])
\* C9 amended: a clockwise listing passes the degeneracy check and every entry
\* of B, the shear row included, equals the entry of the counter-clockwise
\* listing that belongs to the same physical node (no sign flips).
C9_ShearRowUnchanged ==
    ClockwiseAccepted =>
        /\ Returned
        /\ \A p \in CcwListings(node_coords) :
             LET Bccw == compute_B_matrix(Reorder(node_coords, p), scale_exp, dtype).B
             IN  \A j \in 1..3 : \A r \in 1..3 :
                   /\ elem_result.B[r][2 * p[j] - 1] = Bccw[r][2 * j - 1]
                   /\ elem_result.B[r][2 * p[j]] = Bccw[r][2 * j]
C9_Witness ==
    /\ ClockwiseAccepted /\ Returned
    /\ \E i \in 1..6 : elem_result.B[3][i] # Zero

(***************************************************************************)
(* TriangularElement.compute_B_matrix_vectorized                           *)
(***************************************************************************)
\* node_coords.shape of a batch; an empty batch is a (0, 3, 2) tensor
BatchShape(bt) ==
    IF Len(bt) = 0 THEN <<0, 3, 2>> ELSE <<Len(bt), Len(bt[1]), Len(bt[1][1])>>

\* the shape test of the vectorized path (the model's batches are all 3-dimensional)
VecBadShape(bt) == BatchShape(bt)[2] # 3 \/ BatchShape(bt)[3] # 2

\* x1, y1 = node_coords[:, 0].t() and so on: column vectors over the batch
VecX(bt, e, i) == [k \in 1..Len(bt) |-> Dy(bt[k][i][1], e)]
VecY(bt, e, i) == [k \in 1..Len(bt) |-> Dy(bt[k][i][2], e)]

\* A = 0.5 * (x1*(y2 - y3) + x2*(y3 - y1) + x3*(y1 - y2)), elementwise
VecTriangleArea(bt, e) ==
    LET x(i) == VecX(bt, e, i)
        y(i) == VecY(bt, e, i)
    IN  [k \in 1..Len(bt) |->
            DyHalf(DyAdd(DyAdd(DyMul(x(1)[k], DySub(y(2)[k], y(3)[k])),
                               DyMul(x(2)[k], DySub(y(3)[k], y(1)[k]))),
                         DyMul(x(3)[k], DySub(y(1)[k], y(2)[k]))))]

\* a batch test that rejects only when every element is degenerate
VecAnyDegenerate_all(A) == Len(A) > 0 /\ \A k \in 1..Len(A) : AbsLessTol(A[k])
\* torch.any(torch.abs(A) < 1e-10)
VecAnyDegenerate(A) == \E k \in 1..Len(A) : AbsLessTol(A[k])

\* b1..c3 as vectors over the batch
VecShapeDerivs(bt, e, A) ==
    LET x(i) == VecX(bt, e, i)
        y(i) == VecY(bt, e, i)
        K == 1..Len(bt)
    IN  [b1 |-> [k \in K |-> DyDiv(DySub(y(2)[k], y(3)[k]), DyTwice(A[k]))],
         b2 |-> [k \in K |-> DyDiv(DySub(y(3)[k], y(1)[k]), DyTwice(A[k]))],
         b3 |-> [k \in K |-> DyDiv(DySub(y(1)[k], y(2)[k]), DyTwice(A[k]))],
         c1 |-> [k \in K |-> DyDiv(DySub(x(3)[k], x(2)[k]), DyTwice(A[k]))],
         c2 |-> [k \in K |-> DyDiv(DySub(x(1)[k], x(3)[k]), DyTwice(A[k]))],
         c3 |-> [k \in K |-> DyDiv(DySub(x(2)[k], x(1)[k]), DyTwice(A[k]))]]

\* torch.stack([...], dim=1) of the three stacked rows: B[k][row][column]
VecBRows(d, K) ==
    [k \in 1..K |->
        <<  <<d.b1[k], Zero, d.b2[k], Zero, d.b3[k], Zero>>,
            <<Zero, d.c1[k], Zero, d.c2[k], Zero, d.c3[k]>>,
            <<d.c1[k], d.b1[k], d.c2[k], d.b2[k], d.c3[k], d.b3[k]>>  >>]

\* the whole function; torch.stack keeps the dtype of node_coords
compute_B_matrix_vectorized(bt, e, dt) ==
    IF VecBadShape(bt)
    THEN Raise("node_coords shape should be (num_elements, 3, 2) for multiple triangles")
    ELSE LET A == VecTriangleArea(bt, e)
         IN  IF VecAnyDegenerate(A)
             THEN Raise("At least one degenerate triangle with almost zero area")
             ELSE [status |-> "ok", msg |-> "", dtype |-> dt,
                   B |-> VecBRows(VecShapeDerivs(bt, e, A), Len(bt))]

SeqsUpTo(S, n) == UNION {[1..k -> S] : k \in 0..n}

InitBatch ==
    /\ batch \in SeqsUpTo(Triangles(BatchMaxCoord), MaxBatch)
                    \cup SeqsUpTo(Arrays(2, 2, BatchMaxCoord), MaxBatch)
    /\ scale_exp \in ScaleExps
    /\ dtype \in DTypes
    /\ vec_result = NoResult
    /\ single_results = <<>>
    /\ split_result = <<>>
    /\ ElemIdle /\ ShapeIdle /\ MainIdle

\* the batched path: one call for the whole batch
CallVectorized ==
    /\ vec_result.status = "none"
    /\ vec_result' = compute_B_matrix_vectorized(batch, scale_exp, dtype)
    /\ UNCHANGED <<batch, single_results, split_result, scale_exp, dtype>>
    /\ UNCHANGED <<elemVars, shapeVars, mainVars>>

\* the per-element path: compute_B_matrix on the next element of the batch
CallSingle ==
    /\ Len(single_results) < Len(batch)
    /\ single_results' = Append(single_results,
            compute_B_matrix(batch[Len(single_results) + 1], scale_exp, dtype))
    /\ UNCHANGED <<batch, vec_result, split_result, scale_exp, dtype>>
    /\ UNCHANGED <<elemVars, shapeVars, mainVars>>

\* the batched path on two smaller batches: elements 1..j and j+1..K
CallSplit ==
    /\ split_result = <<>>
    /\ \E j \in 1..(Len(batch) - 1) :
         split_result' =
            <<compute_B_matrix_vectorized(SubSeq(batch, 1, j), scale_exp, dtype),
              compute_B_matrix_vectorized(SubSeq(batch, j + 1, Len(batch)),
                                          scale_exp, dtype)>>
    /\ UNCHANGED <<batch, vec_result, single_results, scale_exp, dtype>>
    /\ UNCHANGED <<elemVars, shapeVars, mainVars>>

NextBatch == CallVectorized \/ CallSingle \/ CallSplit
SpecBatch == InitBatch /\ [][NextBatch]_vars

(***************************************************************************)
(* Claims about compute_B_matrix_vectorized (checked under SpecBatch)      *)
(***************************************************************************)
VecCalled == vec_result.status # "none"
AllSinglesSucceeded ==
    /\ Len(single_results) = Len(batch)
    /\ \A k \in 1..Len(batch) : single_results[k].status = "ok"
\* C2: when every single-element computation succeeds, the batched result is
\* the concatenation of the single results (same entries, same 3x6 layout,
\* same precision), and so is the concatenation of the results of two parts.
C2_BatchEqualsSingles ==
    (VecCalled /\ AllSinglesSucceeded) =>
        /\ vec_result.status = "ok"
        /\ Len(vec_result.B) = Len(batch)
        /\ \A k \in 1..Len(batch) :
             /\ vec_result.B[k] = single_results[k].B
             /\ vec_result.dtype = single_results[k].dtype
        /\ split_result # <<>> =>
             /\ split_result[1].status = "ok" /\ split_result[2].status = "ok"
             /\ split_result[1].B \o split_result[2].B = vec_result.B
             /\ split_result[1].dtype = vec_result.dtype
             /\ split_result[2].dtype = vec_result.dtype

WellShaped(bt) == \A k \in 1..Len(bt) : IsTriangle(bt[k])
SomeDegenerate(bt) == \E k \in 1..Len(bt) : AreaBelowTol(bt[k], scale_exp)
\* C3: the batched call raises and returns no matrix at all when at least one
\* element has |A| < 1e-10, and returns one matrix per element otherwise.
C3_WholeBatchFails ==
    (VecCalled /\ WellShaped(batch)) =>
        IF SomeDegenerate(batch)
        THEN vec_result.status = "ValueError" /\ vec_result.B = <<>>
        ELSE vec_result.status = "ok" /\ Len(vec_result.B) = Len(batch)
\* a batch of a sound and a degenerate element was rejected as a whole
C3_Witness ==
    /\ VecCalled /\ WellShaped(batch)
    /\ SomeDegenerate(batch)
    /\ \E k \in 1..Len(batch) : ~AreaBelowTol(batch[k], scale_exp)
    /\ vec_result.status = "ValueError" /\ vec_result.B = <<>>

(***************************************************************************)
(* TriangularElement.shape_functions, in float32                           *)
(*                                                                         *)
(* A float32 value v is held as the integer v * 2^FracBits.  Every value   *)
(* of the model is a multiple of 2^-FracBits below 4, so the exact result  *)
(* of an addition or subtraction is on the grid and only its rounding to   *)
(* MantissaBits significant bits has to be computed.                       *)
(***************************************************************************)
FracBits == MantissaBits + 3
One == Pow(2, FracBits)
\* m * 2^ex as a grid integer
F32(m, ex) == m * Pow(2, FracBits + ex)

\* number of low bits a magnitude has beyond MantissaBits significant bits
RECURSIVE ExtraBits(_)
ExtraBits(a) == IF a < Pow(2, MantissaBits) THEN 0 ELSE 1 + ExtraBits(a \div 2)

\* round to nearest float32, ties to even
RoundF32(v) ==
    LET a == Abs(v)
        q == Pow(2, ExtraBits(a))
        lo == (a \div q) * q
        r == a - lo
        up == IF 2 * r < q THEN FALSE
              ELSE IF 2 * r > q THEN TRUE
              ELSE (lo \div q) % 2 = 1
        m == IF up THEN lo + q ELSE lo
    IN  IF v < 0 THEN -m ELSE m

F32Sub(a, b) == RoundF32(a - b)
F32Add(a, b) == RoundF32(a + b)

\* a first shape function that leaves eta out
shape_functions_noeta(nat) ==
    <<F32Sub(One, nat[1]), nat[1], nat[2]>>
\* xi, eta = natural_coords; N = torch.tensor([1 - xi - eta, xi, eta])
shape_functions(nat) ==
    LET xi == nat[1]
        eta == nat[2]
    IN  <<F32Sub(F32Sub(One, xi), eta), xi, eta>>

\* float32 coordinates in [0, 1]: 0, 1/4, 1/2, 1, the float32 nearest to 1/3,
\* 0.1, 0.2 and 0.7, and k * 2^-25 for k = 1..MaxTiny
NaturalValues ==
    {0, F32(1, -2), F32(1, -1), One, F32(11184811, -25), F32(13421773, -27),
     F32(13421773, -26), F32(11744051, -24)}
        \cup {F32(k, -25) : k \in 1..MaxTiny}

InitShape ==
    /\ natural_coords \in NaturalValues \X NaturalValues
    /\ N = <<>>
    /\ scale_exp = 0
    /\ dtype = "float32"
    /\ ElemIdle /\ BatchIdle /\ MainIdle

\* a caller evaluates the shape functions at natural_coords
CallShapeFunctions ==
    /\ N = <<>>
    /\ N' = shape_functions(natural_coords)
    /\ UNCHANGED <<natural_coords, scale_exp, dtype>>
    /\ UNCHANGED <<elemVars, batchVars, mainVars>>

NextShape == CallShapeFunctions
SpecShape == InitShape /\ [][NextShape]_vars

(***************************************************************************)
(* Claims about shape_functions (checked under SpecShape)                  *)
(***************************************************************************)
\* the sum of the three returned values as real numbers
ExactSum == N[1] + N[2] + N[3]
\* the sum as float32 arithmetic accumulates it
FloatSum == F32Add(F32Add(N[1], N[2]), N[3])
\* C5 as stated: the three shape function values sum to exactly 1 (as real
\* numbers, or at least as their float32 sum).
C5_SumExactlyOne ==
    N # <<>> => (ExactSum = One \/ FloatSum = One)
\* 2^-22 on the grid
SumTolerance == Pow(2, FracBits - MantissaBits + 2)
\* C5 amended: for float32 coordinates in [0, 1] the values are
\* [1 - xi - eta, xi, eta] up to the rounding of the first, and they sum to 1
\* within floating tolerance: their real sum and their float32 sum differ
\* from 1 by at most 2^-22.
C5_SumWithinTolerance ==
    N # <<>> =>
        /\ N[2] = natural_coords[1] /\ N[3] = natural_coords[2]
        /\ Abs(ExactSum - One) <= SumTolerance
        /\ Abs(FloatSum - One) <= SumTolerance
\* an evaluation whose first value was rounded, so that neither sum is 1
C5_Witness ==
    /\ N # <<>>
    /\ ExactSum # One /\ FloatSum # One

(***************************************************************************)
(* main_modal.py: main = initialize_model; run_analysis; post_processing   *)
(*                                                                         *)
(* The methods of FiniteElementModel and the helpers of utlis.function are *)
(* calls that either complete or raise; nothing in main_modal.py catches   *)
(* an exception.                                                           *)
(***************************************************************************)
InitializeModelStmts ==
    <<"FiniteElementModel", "read_geom_from_yaml", "read_material_from_yaml",
      "read_loading_from_yaml", "to_device">>

SetFlagStmt == "args.incompatible_mode_element = True"
StiffnessStmt == "if args.incompatible_mode_element == True"
RunAnalysisStmts ==
    <<"init_element_class", "generate_material_dict", "compute_mass_matrix",
      SetFlagStmt, StiffnessStmt,
      "assemble_global_stiffness", "assemble_global_mass_matrix",
      "assemble_global_load_vector", "solve_system_modal">>

StressInterpolationStmt == "interpolate_to_nodes(gauss_point_stresses)"
ComponentsStmt == "if model.parameters['num_dimensions']==2"
WriteStmt == "write_to_vtk_manual"
PostProcessingStmts ==
    <<"compute_GP_strains_stresses", "interpolate_to_nodes(gauss_point_strains)",
      StressInterpolationStmt, "get_vtk_cell_type", ComponentsStmt, WriteStmt>>

\* np.sqrt(r) for an integer r >= 0: the integer root and whether it is exact
Sqrt(r) ==
    LET n == CHOOSE n \in 0..r : n * n <= r /\ (n + 1) * (n + 1) > r
    IN  [floor |-> n, exact |-> n * n = r]

\* stress11, stress22, stress12 = columns 0, 1, 2
VonMises2D(st) ==
    LET stress11 == st[1]
        stress22 == st[2]
        stress12 == st[3]
    IN  Sqrt(stress11 * stress11 - stress11 * stress22 + stress22 * stress22
                + 3 * stress12 * stress12)

\* a 3D formula without the factor 0.5
VonMises3D_nohalf(st) ==
    LET stress11 == st[1]
        stress22 == st[2]
        stress33 == st[3]
        stress12 == st[6]
        stress13 == st[5]
        stress23 == st[4]
    IN  Sqrt((stress11 - stress22) * (stress11 - stress22)
                + (stress22 - stress33) * (stress22 - stress33)
                + (stress33 - stress11) * (stress33 - stress11)
                + 3 * (stress12 * stress12 + stress13 * stress13
                        + stress23 * stress23))
\* stress11, 22, 33, 23, 13, 12 = columns 0..5; the sum of the three squared
\* differences is even, so the factor 0.5 is an exact halving
VonMises3D(st) ==
    LET stress11 == st[1]
        stress22 == st[2]
        stress33 == st[3]
        stress12 == st[6]
        stress13 == st[5]
        stress23 == st[4]
    IN  Sqrt(((stress11 - stress22) * (stress11 - stress22)
                + (stress22 - stress33) * (stress22 - stress33)
                + (stress33 - stress11) * (stress33 - stress11)) \div 2
                + 3 * (stress12 * stress12 + stress13 * stress13
                        + stress23 * stress23))

\* one row of node_stresses: 3 components in 2D, 6 in 3D
StressRows(dim) ==
    [1..(IF dim = 2 THEN 3 ELSE 6) -> (0 - MaxStress)..MaxStress]

InitMain ==
    /\ phase = "initialize_model"
    /\ stmt = 1
    /\ calls = <<>>
    /\ raised_in = "none"
    /\ cli_flag \in BOOLEAN
    /\ args_flag = cli_flag
    /\ num_dimensions \in {2, 3}
    /\ node_stresses = <<>>
    /\ von_mises_stress = NotComputed
    /\ vtk = VtkAbsent
    /\ scale_exp = 0
    /\ dtype = "float32"
    /\ ElemIdle /\ BatchIdle /\ ShapeIdle

\* an exception handler in main that logs the error and goes on to post-processing
Propagate_swallowed(name) ==
    /\ raised_in' = name
    /\ phase' = "post_processing"
    /\ stmt' = 1
    /\ UNCHANGED <<calls, cli_flag, args_flag, num_dimensions, node_stresses,
                   von_mises_stress, vtk>>
\* the call raises: the exception leaves main and the process ends
Propagate(name) ==
    /\ raised_in' = name
    /\ phase' = "exit_error"
    /\ UNCHANGED <<stmt, calls, cli_flag, args_flag, num_dimensions,
                   node_stresses, von_mises_stress, vtk>>

\* the call completes and control moves to the next statement, or to the
\* function main calls next
Advance(stmts, nextPhase) ==
    IF stmt = Len(stmts)
    THEN phase' = nextPhase /\ stmt' = 1
    ELSE phase' = phase /\ stmt' = stmt + 1

InitializeModelStep ==
    /\ phase = "initialize_model"
    /\ LET name == InitializeModelStmts[stmt]
       IN  \/ /\ calls' = Append(calls, name)
              /\ Advance(InitializeModelStmts, "run_analysis")
              /\ UNCHANGED <<raised_in, cli_flag, args_flag, num_dimensions,
                             node_stresses, von_mises_stress, vtk>>
           \/ Propagate(name)
    /\ UNCHANGED <<scale_exp, dtype, elemVars, batchVars, shapeVars>>

\* the method calls of run_analysis
RunAnalysisCall ==
    /\ phase = "run_analysis"
    /\ RunAnalysisStmts[stmt] \notin {SetFlagStmt, StiffnessStmt}
    /\ LET name == RunAnalysisStmts[stmt]
       IN  \/ /\ calls' = Append(calls, name)
              /\ Advance(RunAnalysisStmts, "post_processing")
              /\ UNCHANGED <<raised_in, cli_flag, args_flag, num_dimensions,
                             node_stresses, von_mises_stress, vtk>>
           \/ Propagate(name)
    /\ UNCHANGED <<scale_exp, dtype, elemVars, batchVars, shapeVars>>

\* args.incompatible_mode_element = True
RunAnalysisSetFlag ==
    /\ phase = "run_analysis"
    /\ RunAnalysisStmts[stmt] = SetFlagStmt
    /\ args_flag' = TRUE
    /\ stmt' = stmt + 1
    /\ UNCHANGED <<phase, calls, raised_in, cli_flag, num_dimensions,
                   node_stresses, von_mises_stress, vtk>>
    /\ UNCHANGED <<scale_exp, dtype, elemVars, batchVars, shapeVars>>

\* if args.incompatible_mode_element == True: ... else: ...
RunAnalysisStiffness ==
    /\ phase = "run_analysis"
    /\ RunAnalysisStmts[stmt] = StiffnessStmt
    /\ LET name == IF args_flag = TRUE
                   THEN "compute_element_stiffness_with_shear_locking"
                   ELSE "compute_element_stiffness"
       IN  \/ /\ calls' = Append(calls, name)
              /\ Advance(RunAnalysisStmts, "post_processing")
              /\ UNCHANGED <<raised_in, cli_flag, args_flag, num_dimensions,
                             node_stresses, von_mises_stress, vtk>>
           \/ Propagate(name)
    /\ UNCHANGED <<scale_exp, dtype, elemVars, batchVars, shapeVars>>

\* the calls of post_processing that only complete or raise
PostProcessingCall ==
    /\ phase = "post_processing"
    /\ PostProcessingStmts[stmt] \notin
            {StressInterpolationStmt, ComponentsStmt, WriteStmt}
    /\ LET name == PostProcessingStmts[stmt]
       IN  \/ /\ calls' = Append(calls, name)
              /\ Advance(PostProcessingStmts, "exit_ok")
              /\ UNCHANGED <<raised_in, cli_flag, args_flag, num_dimensions,
                             node_stresses, von_mises_stress, vtk>>
           \/ Propagate(name)
    /\ UNCHANGED <<scale_exp, dtype, elemVars, batchVars, shapeVars>>

\* node_stresses = interpolate_to_nodes(...): any nodal stress row may come back
PostInterpolateStresses ==
    /\ phase = "post_processing"
    /\ PostProcessingStmts[stmt] = StressInterpolationStmt
    /\ \/ /\ node_stresses' \in StressRows(num_dimensions)
          /\ calls' = Append(calls, StressInterpolationStmt)
          /\ Advance(PostProcessingStmts, "exit_ok")
          /\ UNCHANGED <<raised_in, cli_flag, args_flag, num_dimensions,
                         von_mises_stress, vtk>>
       \/ Propagate(StressInterpolationStmt)
    /\ UNCHANGED <<scale_exp, dtype, elemVars, batchVars, shapeVars>>

\* the component dictionaries and the von Mises stress, by dimension
PostComponents ==
    /\ phase = "post_processing"
    /\ PostProcessingStmts[stmt] = ComponentsStmt
    /\ \/ /\ num_dimensions = 2
          /\ calls' = Append(calls, "add_zero_z_coordinate")
          /\ von_mises_stress' = VonMises2D(node_stresses)
          /\ Advance(PostProcessingStmts, "exit_ok")
          /\ UNCHANGED <<raised_in, cli_flag, args_flag, num_dimensions,
                         node_stresses, vtk>>
       \/ /\ num_dimensions = 2
          /\ Propagate("add_zero_z_coordinate")
       \/ /\ num_dimensions # 2
          /\ von_mises_stress' = VonMises3D(node_stresses)
          /\ Advance(PostProcessingStmts, "exit_ok")
          /\ UNCHANGED <<calls, raised_in, cli_flag, args_flag, num_dimensions,
                         node_stresses, vtk>>
    /\ UNCHANGED <<scale_exp, dtype, elemVars, batchVars, shapeVars>>

\* write_to_vtk_manual(..., point_data, filename = results.vtk) ends main
PostWriteVtk ==
    /\ phase = "post_processing"
    /\ PostProcessingStmts[stmt] = WriteStmt
    /\ \/ /\ vtk' = [written |-> TRUE, stress |-> node_stresses,
                     von_mises_stress |-> von_mises_stress]
          /\ calls' = Append(calls, WriteStmt)
          /\ Advance(PostProcessingStmts, "exit_ok")
          /\ UNCHANGED <<raised_in, cli_flag, args_flag, num_dimensions,
                         node_stresses, von_mises_stress>>
       \/ /\ raised_in' = WriteStmt
          /\ phase' = "exit_error"
          /\ vtk' = VtkAfterFailedWrite
          /\ UNCHANGED <<stmt, calls, cli_flag, args_flag, num_dimensions,
                         node_stresses, von_mises_stress>>
    /\ UNCHANGED <<scale_exp, dtype, elemVars, batchVars, shapeVars>>

NextMain ==
    \/ InitializeModelStep
    \/ RunAnalysisCall
    \/ RunAnalysisSetFlag
    \/ RunAnalysisStiffness
    \/ PostProcessingCall
    \/ PostInterpolateStresses
    \/ PostComponents
    \/ PostWriteVtk
SpecMain == InitMain /\ [][NextMain]_vars

(***************************************************************************)
(* Claims about main, run_analysis and post_processing (under SpecMain)    *)
(***************************************************************************)
Range(f) == {f[i] : i \in DOMAIN f}
Uniaxial(st) == \A i \in 2..Len(st) : st[i] = 0
\* C6: for a uniaxial nodal stress state (stress11 = s, all other components
\* 0) the von Mises stress post_processing computes is |s|, with the 2D
\* formula and with the 3D formula.
C6_UniaxialVonMises ==
    (von_mises_stress # NotComputed /\ Uniaxial(node_stresses)) =>
        von_mises_stress = [floor |-> Abs(node_stresses[1]), exact |-> TRUE]
\* a compressive uniaxial state went through the 3D formula
C6_Witness ==
    /\ von_mises_stress # NotComputed
    /\ num_dimensions = 3
    /\ Uniaxial(node_stresses)
    /\ node_stresses[1] < -1

ShearLockingRan == "compute_element_stiffness_with_shear_locking" \in Range(calls)
StandardRan == "compute_element_stiffness" \in Range(calls)
\* C8: the incompatible-mode stiffness runs exactly when the command line gave
\* --incompatible_mode_element, the standard stiffness exactly when it did
\* not, and one of the two has run once the stiffness is assembled.
C8_FlagSelectsStiffnessPath ==
    /\ ShearLockingRan => cli_flag
    /\ StandardRan => ~cli_flag
    /\ ~(ShearLockingRan /\ StandardRan)
    /\ "assemble_global_stiffness" \in Range(calls) =>
            (ShearLockingRan \/ StandardRan)

\* the stage of the claim's pipeline a call belongs to: 1 load inputs,
\* 2 element class and material setup, 3 element mass, 4 element stiffness,
\* 5 assemble K, 6 assemble M, 7 assemble load vector, 8 modal solve,
\* 9 integration-point recovery, 10 nodal interpolation, 11 VTK export
StageOf(name) ==
    CASE name \in {"FiniteElementModel", "read_geom_from_yaml",
                   "read_material_from_yaml", "read_loading_from_yaml",
                   "to_device"} -> 1
      [] name \in {"init_element_class", "generate_material_dict"} -> 2
      [] name = "compute_mass_matrix" -> 3
      [] name \in {"compute_element_stiffness_with_shear_locking",
                   "compute_element_stiffness"} -> 4
      [] name = "assemble_global_stiffness" -> 5
      [] name = "assemble_global_mass_matrix" -> 6
      [] name = "assemble_global_load_vector" -> 7
      [] name = "solve_system_modal" -> 8
      [] name = "compute_GP_strains_stresses" -> 9
      [] name \in {"interpolate_to_nodes(gauss_point_strains)",
                   "interpolate_to_nodes(gauss_point_stresses)"} -> 10
      [] name \in {"get_vtk_cell_type", "add_zero_z_coordinate",
                   "write_to_vtk_manual"} -> 11
\* the calls a stage consists of whatever the inputs are
StageCalls(s) ==
    CASE s = 1 -> {"FiniteElementModel", "read_geom_from_yaml",
                   "read_material_from_yaml", "read_loading_from_yaml",
                   "to_device"}
      [] s = 2 -> {"init_element_class", "generate_material_dict"}
      [] s = 3 -> {"compute_mass_matrix"}
      [] s = 4 -> {}
      [] s = 5 -> {"assemble_global_stiffness"}
      [] s = 6 -> {"assemble_global_mass_matrix"}
      [] s = 7 -> {"assemble_global_load_vector"}
      [] s = 8 -> {"solve_system_modal"}
      [] s = 9 -> {"compute_GP_strains_stresses"}
      [] s = 10 -> {"interpolate_to_nodes(gauss_point_strains)",
                    "interpolate_to_nodes(gauss_point_stresses)"}
      [] s = 11 -> {"get_vtk_cell_type", "write_to_vtk_manual"}
LastStage == StageOf("write_to_vtk_manual")
====
